---- MODULE Spec2Model ----
(***************************************************************************)
(* Model of the locksmith CLI: the persisted configuration records         *)
(* (credentials, llm-brokers, auth-modules), the commands that read and    *)
(* write them (init, configure auth|llm, add, generate) and the setup      *)
(* orchestrator of generate (ensureCompleteSetup).                         *)
(*                                                                         *)
(* JavaScript values are represented as follows.  A string is a TLA+       *)
(* string; `undefined` (a missing flag or key) is ABSENT and `null` is     *)
(* NULLV.  An optional value is a sequence of length 0 (absent) or 1.      *)
(* A callback URI typed by the user is a sequence of tokens: "sp" is a     *)
(* whitespace character, "scheme" is one of the prefixes http:// and       *)
(* https://, and "x" is any other character.  Timestamps produced by       *)
(* new Date().toISOString() are the single value NOW.                      *)
(***************************************************************************)
EXTENDS Integers, Sequences, FiniteSets, TLC

VARIABLES
    credentialsConfig,   \* Conf store 'credentials': keys credentials, savedAt
    credFile,            \* ~/.locksmith/credentials.json exists
    toolsConfig,         \* Conf store 'llm-brokers'
    authModulesConfig,   \* Conf store 'auth-modules'
    installed,           \* executables found on PATH (environment)
    pc,                  \* position of the running command
    run,                 \* flags and observations of the running command
    lastSave,            \* per record, the last save call of this run
    adds,                \* the two most recent consecutive module additions
    ncmd                 \* number of commands started

vars == <<credentialsConfig, credFile, toolsConfig, authModulesConfig,
          installed, pc, run, lastSave, adds, ncmd>>

stores == <<credentialsConfig, credFile, toolsConfig, authModulesConfig>>

----------------------------------------------------------------------------
(* Bounds *)

MaxUriLen == 2
MaxCommands == 2

----------------------------------------------------------------------------
(* JavaScript values *)

ABSENT == "<undefined>"
NULLV == "<null>"
NOW == "t"

None == <<>>
Some(v) == <<v>>

Truthy(v) == v \notin {ABSENT, NULLV, ""}

RECURSIVE SeqToSet(_)
SeqToSet(s) == IF s = <<>> THEN {} ELSE {Head(s)} \cup SeqToSet(Tail(s))

NoDuplicates(s) == \A i, j \in 1..Len(s) : i # j => s[i] # s[j]

Includes(s, v) == \E i \in 1..Len(s) : s[i] = v

\* String.prototype.toLowerCase on the flag values the model draws.
ToLowerCase(s) ==
    CASE s = "ScaleKit" -> "scalekit"
      [] s = "SSO" -> "sso"
      [] s = "Claude" -> "claude"
      [] OTHER -> s

----------------------------------------------------------------------------
(* Program constants *)

SUPPORTED_PROVIDERS == <<"scalekit", "auth0", "fusionauth">>
SUPPORTED_AUTH_MODULES == <<"full-stack-auth", "sso", "mcp">>
AVAILABLE_BROKERS == <<"gemini", "claude", "cursor-agent">>
DEFAULT_BROKER == "gemini"

ToolNames == {"claude", "gemini", "cursor"}

\* The executable each tool key of detectTools stands for.
Executable(tool) == IF tool = "cursor" THEN "cursor-agent" ELSE tool

Modules == SeqToSet(SUPPORTED_AUTH_MODULES)
Brokers == SeqToSet(AVAILABLE_BROKERS)

----------------------------------------------------------------------------
(* Callback URI strings *)

UriTokens == {"sp", "scheme", "x"}

UriInputs == UNION {[1..n -> UriTokens] : n \in 0..MaxUriLen}

RECURSIVE TrimStart(_)
TrimStart(s) ==
    IF s # <<>> /\ Head(s) = "sp" THEN TrimStart(Tail(s)) ELSE s

RECURSIVE TrimEnd(_)
TrimEnd(s) ==
    IF s # <<>> /\ s[Len(s)] = "sp"
    THEN TrimEnd(SubSeq(s, 1, Len(s) - 1))
    ELSE s

Trim(s) == TrimEnd(TrimStart(s))

\* /^https?:\/\/.+$/.test(s)
UrlPatternTest(s) == Len(s) >= 2 /\ s[1] = "scheme"

----------------------------------------------------------------------------
(* The Conf stores *)

ConfSet(conf, key, val) == [conf EXCEPT ![key] = Some(val)]

ConfGet(conf, key, default) ==
    IF conf[key] = None THEN default ELSE conf[key][1]

CredKeys == {"provider", "environmentId", "clientId", "clientSecret",
             "environmentUrl", "configuredAt"}

\* A credentials object; a key it does not have maps to ABSENT.
NoKeys == [k \in CredKeys |-> ABSENT]

ObjectKeys(obj) == {k \in DOMAIN obj : obj[k] # ABSENT}

EmptyCredentialsConfig == [credentials |-> None, savedAt |-> None]

DefaultToolsConfig ==
    [detectedAt |-> Some(NULLV), tools |-> Some(<<>>),
     version |-> Some("1.1"), preferredBroker |-> None]

DefaultAuthModulesConfig ==
    [selectedModules |-> Some(<<>>), selectedAt |-> Some(NULLV),
     version |-> Some("1.0"), callbackUri |-> None,
     redirectConfiguredAt |-> None, redirectsConfigured |-> None,
     redirectsConfiguredAt |-> None]

AuthKeys == DOMAIN DefaultAuthModulesConfig

\* An additionalConfig object without any key.
NoAdditionalConfig == [k \in AuthKeys |-> None]

saveCredentials(conf, credentials) ==
    ConfSet(ConfSet(conf, "credentials", credentials), "savedAt", NOW)

\* The credentials object, or None for null.
loadCredentials(conf) == conf.credentials

hasCredentials(conf, file) ==
    IF ~file THEN FALSE
    ELSE /\ conf.credentials # None
         /\ Cardinality(ObjectKeys(conf.credentials[1])) > 0

saveToolDetection(conf, tools) ==
    ConfSet(ConfSet(ConfSet(conf, "detectedAt", NOW), "tools", tools),
            "version", "1.0")

savePreferredBroker(conf, broker) ==
    ConfSet(ConfSet(ConfSet(conf, "preferredBroker", broker),
                    "version", "1.1"), "detectedAt", NOW)

\* The broker name, or NULLV.
loadPreferredBroker(conf) == ConfGet(conf, "preferredBroker", NULLV)

\* The tool-detection object, or None for null.
loadToolDetection(conf) ==
    LET detectedAt == ConfGet(conf, "detectedAt", NULLV)
        tools == ConfGet(conf, "tools", <<>>)
    IN  IF ~Truthy(detectedAt) /\ DOMAIN tools = {}
        THEN None
        ELSE Some([detectedAt |-> detectedAt, tools |-> tools,
                   version |-> ConfGet(conf, "version", "1.1"),
                   preferredBroker |-> conf.preferredBroker])

RECURSIVE SetAdditional(_, _, _)
SetAdditional(conf, additionalConfig, keys) ==
    IF keys = {} THEN conf
    ELSE LET k == CHOOSE x \in keys : TRUE
         IN  SetAdditional(
                 IF additionalConfig[k] = None THEN conf
                 ELSE ConfSet(conf, k, additionalConfig[k][1]),
                 additionalConfig, keys \ {k})

saveAuthModules(conf, modules, additionalConfig) ==
    SetAdditional(
        ConfSet(ConfSet(ConfSet(conf, "selectedModules", modules),
                        "selectedAt", NOW), "version", "1.0"),
        additionalConfig, AuthKeys)

\* A faulty loadAuthModules that does not read callbackUri.
loadAuthModulesWithoutUri(conf) ==
    LET selectedModules == ConfGet(conf, "selectedModules", <<>>)
        selectedAt == ConfGet(conf, "selectedAt", NULLV)
    IN  IF ~Truthy(selectedAt) /\ Len(selectedModules) = 0
        THEN None
        ELSE Some([selectedModules |-> selectedModules,
                   selectedAt |-> selectedAt,
                   version |-> ConfGet(conf, "version", "1.0"),
                   callbackUri |-> None])

\* The auth-modules object, or None for null.  Its callbackUri is None
\* for null.
loadAuthModules(conf) ==
    LET selectedModules == ConfGet(conf, "selectedModules", <<>>)
        selectedAt == ConfGet(conf, "selectedAt", NULLV)
    IN  IF ~Truthy(selectedAt) /\ Len(selectedModules) = 0
        THEN None
        ELSE Some([selectedModules |-> selectedModules,
                   selectedAt |-> selectedAt,
                   version |-> ConfGet(conf, "version", "1.0"),
                   callbackUri |-> conf.callbackUri])

hasAuthModules(conf) == Len(ConfGet(conf, "selectedModules", <<>>)) > 0

getAuthModules(conf) ==
    IF loadAuthModules(conf) = None THEN <<>>
    ELSE loadAuthModules(conf)[1].selectedModules

\* None for null, Some(uri) otherwise.
getCallbackUri(conf) == conf.callbackUri

\* !callbackUri : null and the empty string are falsy.
CallbackUriTruthy(conf) ==
    getCallbackUri(conf) # None /\ getCallbackUri(conf)[1] # <<>>

detectTools == [t \in ToolNames |-> Executable(t) \in installed]

----------------------------------------------------------------------------
(* Flags and answers *)

\* shouldUseInteractive({ interactive, noInteractive })
shouldUseInteractive(interactive, noInteractive) ==
    IF interactive THEN TRUE
    ELSE IF noInteractive THEN FALSE
    ELSE TRUE

\* validateCommand(command, flags): TRUE when no conflict is found.
validateCommand(interactive, noInteractive, dryRun, force) ==
    /\ ~(interactive /\ noInteractive)
    /\ ~(dryRun /\ force)

\* Answers that pass the `input.trim() !== ''` validation of the prompts
\* of prompts.js, as returned (trimmed).
EnvironmentIdAnswers == {"e1"}
ClientIdAnswers == {"c1"}
ClientSecretAnswers == {"s1"}
EnvironmentUrlAnswers == {"u1"}

\* Values of a string flag on the command line: not given, or a value.
FlagValues(vals) == {ABSENT} \cup vals

ProviderFlags == {ABSENT, "scalekit", "ScaleKit", "auth0", "okta"}
ModuleFlags == {ABSENT, "sso", "SSO", "mcp", "oauth"}
BrokerFlags == {ABSENT, "claude", "Claude", "gemini", "cursor-agent", "copilot"}

\* What inquirer's checkbox returns: the ticked choices in choice order.
ChoiceOrder(choices, ticked) ==
    LET RECURSIVE Pick(_)
        Pick(s) == IF s = <<>> THEN <<>>
                   ELSE IF Head(s) \in ticked
                        THEN <<Head(s)>> \o Pick(Tail(s))
                        ELSE Pick(Tail(s))
    IN  Pick(choices)

\* [...new Set([...a, ...b])]
RECURSIVE Dedupe(_)
Dedupe(s) ==
    IF s = <<>> THEN <<>>
    ELSE LET rest == Dedupe(SubSeq(s, 1, Len(s) - 1))
         IN  IF Includes(rest, s[Len(s)]) THEN rest
             ELSE Append(rest, s[Len(s)])

----------------------------------------------------------------------------
(* Observations of one command run *)

\* The broker executables that exist for this machine: which of them are
\* on the PATH is the environment's choice.
Installable == {"claude"}

\* Neither --interactive nor --no-interactive on the command line.
NoArgv == [interactive |-> FALSE, noInteractive |-> FALSE]

\* A call of a read operation of the store: the condition of the document
\* it read, whether it raised, and whether it returned the absent value.
NoRead == [op |-> "none", cond |-> "ok", raised |-> FALSE, absent |-> FALSE]

\* No credential flag given.
NoInitFlags ==
    [provider |-> ABSENT, environmentId |-> ABSENT, clientId |-> ABSENT,
     clientSecret |-> ABSENT, environmentUrl |-> ABSENT]

\* A call of a prompt operation: its gate, the default it was given, what
\* it returned and whether it prompted.
NoCall == [op |-> "none", interactive |-> TRUE, default |-> NULLV,
           value |-> NULLV, prompted |-> FALSE]

NoRun ==
    [cmd |-> "none", useInteractive |-> TRUE, dryRun |-> FALSE,
     force |-> FALSE, moduleFlag |-> ABSENT,
     prompted |-> FALSE,           \* an interactive prompt was issued
     spawned |-> {},               \* broker executables spawned
     result |-> "none",            \* CommandResult "success"/"failure",
                                   \* "returned" (no result) or "threw"
     named |-> "none",             \* the step the failure message names
     missing |-> {},               \* the flags a thrown error lists
     remStarted |-> {},            \* states whose remediation was entered
     remFailed |-> "none",         \* state whose remediation did not succeed
     setup |-> "pending",          \* what ensureCompleteSetup returned
     overwriteConfirmed |-> FALSE, \* the user said yes to overwriting
     configureRedirects |-> FALSE, \* add: redirect setup was asked for
     selected |-> <<>>,            \* modules chosen for generation
     initFlags |-> NoInitFlags,    \* the credential flags given to init
     summary |-> <<>>,             \* check: <<available, total>> as printed
     brokerFlag |-> ABSENT,        \* configure llm: the --broker flag
     declined |-> FALSE,           \* the user said no to a confirm prompt
     read |-> NoRead,              \* a direct call of a read operation
     argv |-> NoArgv,              \* the mode flags on the command line
     broker |-> "",                \* the broker the switch dispatched to
     detections |-> 0,             \* detections of the broker executable
     configFlows |-> 0,            \* broker configuration flows launched
     spawnCount |-> 0,             \* child processes started
     tempFile |-> "none",          \* "none", "exists" or "deleted"
     childFailed |-> FALSE,        \* the child process exited abnormally
     adapter |-> NoCall]           \* a direct call of a prompt operation

\* Per record, the arguments of the most recent save call of the running
\* command (None: no call).
NoSave == [credentials |-> None, tools |-> None, broker |-> None,
           modules |-> None, additional |-> None]

\* Up to two writes of `add` with no other write to the modules record in
\* between: the modules stored before the first, and what each added.
NoAdds == [n |-> 0, base |-> <<>>, first |-> <<>>, second |-> <<>>]

States == <<"credentials", "callback", "modules", "broker">>

----------------------------------------------------------------------------
(* Initial state: a fresh environment *)

Init ==
    /\ credentialsConfig = EmptyCredentialsConfig
    /\ credFile = FALSE
    /\ toolsConfig = DefaultToolsConfig
    /\ authModulesConfig = DefaultAuthModulesConfig
    /\ installed \in SUBSET Installable
    /\ pc = "idle"
    /\ run = NoRun
    /\ lastSave = NoSave
    /\ adds = NoAdds
    /\ ncmd = 0

\* The satisfaction verdict of each orchestrator state, as the
\* orchestrator evaluates it.
Satisfied(s) ==
    CASE s = "credentials" -> hasCredentials(credentialsConfig, credFile)
      [] s = "callback" -> CallbackUriTruthy(authModulesConfig)
      [] s = "modules" -> hasAuthModules(authModulesConfig)
      [] s = "broker" -> Truthy(loadPreferredBroker(toolsConfig))

----------------------------------------------------------------------------
(* Flows shared by several commands *)

\* promptForCallbackUri, given what the user typed: None for null.
promptForCallbackUri(typed) ==
    IF typed = <<>> \/ Trim(typed) = <<>> THEN None
    ELSE IF ~UrlPatternTest(Trim(typed)) THEN None
    ELSE Some(Trim(typed))

validateRedirectPrerequisites(cc) ==
    LET credentials == loadCredentials(cc)
        provider == IF credentials # None /\ Truthy(credentials[1].provider)
                    THEN credentials[1].provider ELSE "scalekit"
    IN  /\ credentials # None
        /\ ToLowerCase(provider) = "scalekit"
        /\ Truthy(credentials[1].environmentId)

\* What promptForCallbackUri can return, over everything the user can type.
CallbackUriResults == {promptForCallbackUri(typed) : typed \in UriInputs}

\* The user's answers to the redirect flow, and whether the browser
\* opened; an answer the flow does not get to ask for is left at its
\* first value.
RedirectAnswers ==
    {in \in [threw : BOOLEAN, confirmOpen : BOOLEAN,
             browserOpened : BOOLEAN, callbackUri : CallbackUriResults] :
        /\ in.threw => ~in.confirmOpen
        /\ ~in.confirmOpen => ~in.browserOpened
        /\ ~in.browserOpened => in.callbackUri = None}

\* handleConfigureRedirects({ useInteractive }) with the user's answers
\* `in`.  Returns the auth-modules store, whether a prompt was issued,
\* whether the callback URI was saved (with the arguments of the save) and
\* whether a prompt rejected.
handleConfigureRedirects(cc, ac, useInteractive, in) ==
    LET callbackUri == IF useInteractive THEN in.callbackUri ELSE None
        existingConfig == loadAuthModules(ac)
        additionalConfig ==
            IF existingConfig = None
            THEN [NoAdditionalConfig EXCEPT
                    !.callbackUri = Some(callbackUri[1]),
                    !.redirectConfiguredAt = Some(NOW)]
            ELSE [NoAdditionalConfig EXCEPT
                    !.selectedModules = Some(existingConfig[1].selectedModules),
                    !.selectedAt = Some(existingConfig[1].selectedAt),
                    !.version = Some(existingConfig[1].version),
                    !.callbackUri = Some(callbackUri[1]),
                    !.redirectConfiguredAt = Some(NOW)]
        modules == IF existingConfig = None THEN <<>>
                   ELSE existingConfig[1].selectedModules
        quit(prompted, threw) ==
            [auth |-> ac, prompted |-> prompted, saved |-> FALSE,
             threw |-> threw, modules |-> <<>>,
             additional |-> NoAdditionalConfig]
    IN  IF ~validateRedirectPrerequisites(cc) THEN quit(FALSE, FALSE)
        ELSE IF useInteractive /\ in.threw THEN quit(TRUE, TRUE)
        ELSE IF useInteractive /\ ~in.confirmOpen THEN quit(TRUE, FALSE)
        ELSE IF ~in.browserOpened THEN quit(useInteractive, FALSE)
        ELSE IF callbackUri = None THEN quit(useInteractive, FALSE)
        ELSE [auth |-> saveAuthModules(ac, modules, additionalConfig),
              prompted |-> TRUE, saved |-> TRUE, threw |-> FALSE,
              modules |-> modules, additional |-> additionalConfig]

BrokerAnswers ==
    {in \in [select : Brokers, confirmSave : BOOLEAN] :
        ~in.confirmSave => in.select = DEFAULT_BROKER}

\* A faulty validateBrokerSelection that takes any --broker value.
validateBrokerSelectionUnchecked(broker, useInteractive, select) ==
    IF Truthy(broker)
    THEN [selectedBroker |-> ToLowerCase(broker), shouldContinue |-> TRUE]
    ELSE IF ~useInteractive
    THEN [selectedBroker |-> NULLV, shouldContinue |-> FALSE]
    ELSE [selectedBroker |-> select, shouldContinue |-> Truthy(select)]

\* validateBrokerSelection({ broker, useInteractive, detectedTools }), the
\* user choosing `select` in selectLLMBrokerInteractive.
validateBrokerSelection(broker, useInteractive, select) ==
    IF Truthy(broker)
    THEN IF ~Includes(AVAILABLE_BROKERS, ToLowerCase(broker))
         THEN [selectedBroker |-> NULLV, shouldContinue |-> FALSE]
         ELSE [selectedBroker |-> ToLowerCase(broker),
               shouldContinue |-> TRUE]
    ELSE IF ~useInteractive
    THEN [selectedBroker |-> NULLV, shouldContinue |-> FALSE]
    ELSE [selectedBroker |-> select, shouldContinue |-> Truthy(select)]

\* handleConfigureLLMBroker(options) with the user's answers `in`.
handleConfigureLLMBroker(tc, broker, useInteractive, force, dryRun, in) ==
    LET detectedTools == detectTools
        brokerValidation == validateBrokerSelection(broker, useInteractive,
                                                    in.select)
        selectedBroker == brokerValidation.selectedBroker
        asked == ~Truthy(broker) /\ useInteractive
        confirmAsked == useInteractive /\ ~force
        quit(prompted) ==
            [tools |-> tc, prompted |-> prompted, saved |-> FALSE,
             broker |-> selectedBroker, detected |-> detectedTools,
             declined |-> FALSE]
    IN  IF ~brokerValidation.shouldContinue THEN quit(FALSE)
        ELSE IF confirmAsked /\ ~in.confirmSave
        THEN [quit(TRUE) EXCEPT !.declined = TRUE]
        ELSE IF dryRun THEN quit(asked \/ confirmAsked)
        ELSE [tools |-> savePreferredBroker(
                            saveToolDetection(tc, detectedTools),
                            selectedBroker),
              prompted |-> asked \/ confirmAsked, saved |-> TRUE,
              broker |-> selectedBroker, detected |-> detectedTools,
              declined |-> FALSE]

\* validateNonInteractiveParams(options): the flags it reports missing.
MissingParams(flags) ==
    {f \in {"provider", "environmentId", "clientId", "clientSecret",
            "environmentUrl"} : ~Truthy(flags[f])}

InitFlags ==
    [provider : ProviderFlags,
     environmentId : FlagValues(EnvironmentIdAnswers),
     clientId : FlagValues(ClientIdAnswers),
     clientSecret : FlagValues(ClientSecretAnswers),
     environmentUrl : FlagValues(EnvironmentUrlAnswers)]

InitAnswers ==
    [environmentId : EnvironmentIdAnswers, clientId : ClientIdAnswers,
     clientSecret : ClientSecretAnswers,
     environmentUrl : EnvironmentUrlAnswers, shouldSave : BOOLEAN]

\* The object validateNonInteractiveParams and
\* collectAndValidateCredentials build.
CredentialsOf(src) ==
    [NoKeys EXCEPT !.environmentId = src.environmentId,
                   !.clientId = src.clientId,
                   !.clientSecret = src.clientSecret,
                   !.environmentUrl = src.environmentUrl]

\* A faulty handleInitCommand that saves the flags without validating.
handleInitCommandUnvalidated(cc, file, useInteractive, flags, in) ==
    [config |-> saveCredentials(cc, CredentialsOf(flags)), file |-> TRUE,
     saved |-> TRUE, credentials |-> CredentialsOf(flags),
     prompted |-> FALSE, outcome |-> "returned", missing |-> {}]

\* handleInitCommand(options) with the user's answers `in`.
handleInitCommand(cc, file, useInteractive, flags, in) ==
    LET quit(prompted, outcome, missing) ==
            [config |-> cc, file |-> file, saved |-> FALSE,
             credentials |-> NoKeys, prompted |-> prompted,
             outcome |-> outcome, missing |-> missing]
        save(credentials, prompted) ==
            [config |-> saveCredentials(cc, credentials), file |-> TRUE,
             saved |-> TRUE, credentials |-> credentials,
             prompted |-> prompted, outcome |-> "returned", missing |-> {}]
    IN  IF hasCredentials(cc, file) THEN quit(FALSE, "returned", {})
        ELSE IF ~useInteractive
        THEN IF MissingParams(flags) # {}
             THEN quit(FALSE, "threw", MissingParams(flags))
             ELSE IF ToLowerCase(flags.provider) # "scalekit"
             THEN quit(FALSE, "threw", {})
             ELSE save(CredentialsOf(flags), FALSE)
        ELSE IF ~in.shouldSave THEN quit(TRUE, "returned", {})
        ELSE save(CredentialsOf(in), TRUE)

\* hasValidCredentials of configureProviderSettings / handleConfigureAuth
HasValidCredentials(existingCredentials) ==
    /\ existingCredentials # None
    /\ Truthy(existingCredentials[1].environmentId)
    /\ Truthy(existingCredentials[1].clientId)
    /\ Truthy(existingCredentials[1].clientSecret)

configureProviderSettings(selectedProvider, existingCredentials) ==
    IF HasValidCredentials(existingCredentials)
    THEN [existingCredentials[1] EXCEPT !.provider = selectedProvider,
                                        !.configuredAt = NOW]
    ELSE [NoKeys EXCEPT !.provider = selectedProvider,
                        !.configuredAt = NOW]

\* A faulty handleExistingCredentials that never asks and always goes on.
handleExistingCredentialsUnguarded(existing, interactive, force, answer) ==
    [shouldContinue |-> TRUE, asked |-> FALSE, confirmed |-> FALSE]

\* handleExistingCredentials(options), the user answering `answer`
\* (shouldOverwrite) when asked: whether to go on, whether the question
\* was put, and whether the user said yes to it.
handleExistingCredentials(existing, interactive, force, answer) ==
    IF existing = None \/ force
    THEN [shouldContinue |-> TRUE, asked |-> FALSE, confirmed |-> FALSE]
    ELSE IF ~interactive
    THEN [shouldContinue |-> FALSE, asked |-> FALSE, confirmed |-> FALSE]
    ELSE [shouldContinue |-> answer, asked |-> TRUE, confirmed |-> answer]

AuthAnswers ==
    {in \in [shouldOverwrite : BOOLEAN, confirmSave : BOOLEAN] :
        ~in.shouldOverwrite => ~in.confirmSave}

\* handleConfigureAuth(options) without --redirects, with the user's
\* answers `in`.  promptAuthProvider only returns an available provider,
\* which is scalekit.
handleConfigureAuth(cc, file, provider, useInteractive, force, dryRun, in) ==
    LET selectedProvider == IF Truthy(provider) THEN ToLowerCase(provider)
                            ELSE "scalekit"
        providerAsked == ~Truthy(provider) /\ useInteractive
        existing == handleExistingCredentials(loadCredentials(cc),
                                              useInteractive, force,
                                              in.shouldOverwrite)
        config == configureProviderSettings(selectedProvider,
                                            loadCredentials(cc))
        confirmAsked == useInteractive /\ ~force
        quit(prompted, overwrite) ==
            [config |-> cc, file |-> file, saved |-> FALSE,
             credentials |-> NoKeys, prompted |-> prompted,
             overwriteConfirmed |-> overwrite, declined |-> FALSE]
        cancel(prompted, overwrite) ==
            [quit(prompted, overwrite) EXCEPT !.declined = TRUE]
    IN  IF Truthy(provider)
           /\ ~Includes(SUPPORTED_PROVIDERS, ToLowerCase(provider))
        THEN quit(FALSE, FALSE)
        ELSE IF ~Truthy(provider) /\ ~useInteractive THEN quit(FALSE, FALSE)
        ELSE IF ~existing.shouldContinue
        THEN IF existing.asked THEN cancel(TRUE, FALSE)
             ELSE quit(providerAsked, FALSE)
        ELSE IF confirmAsked /\ ~in.confirmSave
        THEN cancel(TRUE, existing.confirmed)
        ELSE IF dryRun
        THEN quit(providerAsked \/ existing.asked \/ confirmAsked,
                  existing.confirmed)
        ELSE [config |-> saveCredentials(cc, config), file |-> TRUE,
              saved |-> TRUE, credentials |-> config,
              prompted |-> providerAsked \/ existing.asked \/ confirmAsked,
              overwriteConfirmed |-> existing.confirmed, declined |-> FALSE]

----------------------------------------------------------------------------
(* init, configure auth, configure llm *)

\* Flags every command takes, after validateCommand.
ModeFlags ==
    {f \in [interactive : BOOLEAN, noInteractive : BOOLEAN,
            dryRun : BOOLEAN, force : BOOLEAN] :
        validateCommand(f.interactive, f.noInteractive, f.dryRun, f.force)}

StartRun(cmd, f) ==
    [NoRun EXCEPT !.cmd = cmd,
                  !.useInteractive =
                      shouldUseInteractive(f.interactive, f.noInteractive),
                  !.dryRun = f.dryRun, !.force = f.force]

\* Mode flags of a command that reads neither --dry-run nor --force.
PlainModeFlags == {f \in ModeFlags : ~f.dryRun /\ ~f.force}

\* The flags and answers of an init run; those the run does not read are
\* left at their first value.
InitInputs(useInteractive, configured) ==
    LET flags0 == CHOOSE f \in InitFlags : MissingParams(f) = {}
        in0 == CHOOSE a \in InitAnswers : ~a.shouldSave
    IN  IF configured
        THEN IF useInteractive THEN {[flags |-> flags0, in |-> in0]}
             ELSE {[flags |-> f, in |-> in0] : f \in {flags0, NoInitFlags}}
        ELSE IF useInteractive
        THEN {[flags |-> flags0, in |-> a] : a \in InitAnswers}
        ELSE {[flags |-> f, in |-> in0] : f \in InitFlags}

\* `locksmith init` and `locksmith init auth` (which forces interactive).
InitCommand ==
    /\ pc = "idle"
    /\ ncmd < MaxCommands
    /\ \E f \in PlainModeFlags, subcommandAuth \in BOOLEAN :
       \E x \in InitInputs(f.interactive \/ subcommandAuth \/ ~f.noInteractive,
                           hasCredentials(credentialsConfig, credFile)) :
         LET flags == x.flags
             in == x.in
             r == StartRun("init",
                           [f EXCEPT !.interactive = @ \/ subcommandAuth])
             out == handleInitCommand(credentialsConfig, credFile,
                                      r.useInteractive, flags, in)
         IN  /\ credentialsConfig' = out.config
             /\ credFile' = out.file
             /\ lastSave' = IF out.saved
                            THEN [lastSave EXCEPT
                                    !.credentials = Some(out.credentials)]
                            ELSE lastSave
             /\ run' = [r EXCEPT !.prompted = out.prompted,
                                 !.result = out.outcome,
                                 !.missing = out.missing,
                                 !.initFlags = flags,
                                 !.declined = out.prompted /\ ~out.saved]
    /\ pc' = "done"
    /\ ncmd' = ncmd + 1
    /\ UNCHANGED <<toolsConfig, authModulesConfig, installed, adds>>

\* `locksmith configure auth` without --redirects
ConfigureAuth ==
    /\ pc = "idle"
    /\ ncmd < MaxCommands
    /\ \E f \in ModeFlags, provider \in ProviderFlags, in \in AuthAnswers :
         LET r == StartRun("configure auth", f)
             out == handleConfigureAuth(credentialsConfig, credFile,
                                        provider, r.useInteractive,
                                        f.force, f.dryRun, in)
         IN  /\ credentialsConfig' = out.config
             /\ credFile' = out.file
             /\ lastSave' = IF out.saved
                            THEN [lastSave EXCEPT
                                    !.credentials = Some(out.credentials)]
                            ELSE lastSave
             /\ run' = [r EXCEPT
                          !.prompted = out.prompted,
                          !.result = "returned",
                          !.overwriteConfirmed = out.overwriteConfirmed,
                          !.declined = out.declined]
    /\ pc' = "done"
    /\ ncmd' = ncmd + 1
    /\ UNCHANGED <<toolsConfig, authModulesConfig, installed, adds>>

\* `locksmith configure auth --redirects`
ConfigureRedirects ==
    /\ pc = "idle"
    /\ ncmd < MaxCommands
    /\ \E f \in PlainModeFlags, in \in RedirectAnswers :
         LET r == StartRun("configure redirects", f)
             out == handleConfigureRedirects(credentialsConfig,
                                             authModulesConfig,
                                             r.useInteractive, in)
         IN  /\ ~out.threw
             /\ authModulesConfig' = out.auth
             /\ lastSave' = IF out.saved
                            THEN [lastSave EXCEPT
                                    !.modules = Some(out.modules),
                                    !.additional = Some(out.additional)]
                            ELSE lastSave
             /\ adds' = IF out.saved THEN NoAdds ELSE adds
             /\ run' = [r EXCEPT !.prompted = out.prompted,
                                 !.result = "returned"]
    /\ pc' = "done"
    /\ ncmd' = ncmd + 1
    /\ UNCHANGED <<credentialsConfig, credFile, toolsConfig, installed>>

\* `locksmith configure llm`
ConfigureLLM ==
    /\ pc = "idle"
    /\ ncmd < MaxCommands
    /\ \E f \in ModeFlags, broker \in BrokerFlags, in \in BrokerAnswers :
         LET r == StartRun("configure llm", f)
             out == handleConfigureLLMBroker(toolsConfig, broker,
                                             r.useInteractive, f.force,
                                             f.dryRun, in)
         IN  /\ toolsConfig' = out.tools
             /\ lastSave' = IF out.saved
                            THEN [lastSave EXCEPT
                                    !.tools = Some(out.detected),
                                    !.broker = Some(out.broker)]
                            ELSE lastSave
             /\ run' = [r EXCEPT !.prompted = out.prompted,
                                 !.result = "returned",
                                 !.brokerFlag = broker,
                                 !.declined = out.declined]
    /\ pc' = "done"
    /\ ncmd' = ncmd + 1
    /\ UNCHANGED <<credentialsConfig, credFile, authModulesConfig,
                   installed, adds>>

----------------------------------------------------------------------------
(* add *)

\* handleAddCommand(options) up to the call of validateCredentials.
AddStart ==
    /\ pc = "idle"
    /\ ncmd < MaxCommands
    /\ \E f \in {m \in ModeFlags : ~m.force} :
         run' = StartRun("add", f)
    /\ pc' = "validateCredentials"
    /\ ncmd' = ncmd + 1
    /\ UNCHANGED <<stores, installed, lastSave, adds>>

\* existingCredentials && existingCredentials.environmentId
CredentialsUsable(cc) ==
    /\ loadCredentials(cc) # None
    /\ Truthy(loadCredentials(cc)[1].environmentId)

\* validateCredentials(useInteractive), with the init wizard it may run.
validateCredentials ==
    /\ pc = "validateCredentials"
    /\ \/ /\ CredentialsUsable(credentialsConfig)
          /\ pc' = "selectModules"
          /\ UNCHANGED <<credentialsConfig, credFile, lastSave, run>>
       \/ /\ ~CredentialsUsable(credentialsConfig)
          /\ ~run.useInteractive
          /\ pc' = "done"
          /\ run' = [run EXCEPT !.result = "returned"]
          /\ UNCHANGED <<credentialsConfig, credFile, lastSave>>
       \/ /\ ~CredentialsUsable(credentialsConfig)
          /\ run.useInteractive
          /\ \E shouldSetup \in BOOLEAN :
               IF ~shouldSetup
               THEN /\ pc' = "done"
                    /\ run' = [run EXCEPT !.prompted = TRUE,
                                          !.result = "returned"]
                    /\ UNCHANGED <<credentialsConfig, credFile, lastSave>>
               ELSE \E x \in InitInputs(TRUE,
                                hasCredentials(credentialsConfig, credFile)) :
                      LET out == handleInitCommand(credentialsConfig, credFile,
                                                   TRUE, x.flags, x.in)
                      IN  /\ credentialsConfig' = out.config
                          /\ credFile' = out.file
                          /\ lastSave' =
                                IF out.saved
                                THEN [lastSave EXCEPT
                                        !.credentials = Some(out.credentials)]
                                ELSE lastSave
                          /\ IF CredentialsUsable(out.config)
                             THEN /\ pc' = "selectModules"
                                  /\ run' = [run EXCEPT !.prompted = TRUE]
                             ELSE /\ pc' = "done"
                                  /\ run' = [run EXCEPT
                                               !.prompted = TRUE,
                                               !.result = "returned"]
    /\ UNCHANGED <<toolsConfig, authModulesConfig, installed, adds, ncmd>>

\* validateModuleFlag(module)
validateModuleFlag(module) ==
    IF ~Includes(SUPPORTED_AUTH_MODULES, ToLowerCase(module))
    THEN [selectedModules |-> <<>>, shouldContinue |-> FALSE]
    ELSE [selectedModules |-> <<ToLowerCase(module)>>,
          shouldContinue |-> TRUE]

\* handleInteractiveModuleSelection(), the user having ticked `ticked`.
handleInteractiveModuleSelection(ticked) ==
    LET selectedModules == ChoiceOrder(SUPPORTED_AUTH_MODULES, ticked)
    IN  IF Len(selectedModules) = 0
        THEN [selectedModules |-> <<>>, shouldContinue |-> FALSE]
        ELSE [selectedModules |-> selectedModules, shouldContinue |-> TRUE]

\* selectModules({ module, useInteractive })
selectModules ==
    /\ pc = "selectModules"
    /\ \E module \in ModuleFlags :
         \E ticked \in IF ~Truthy(module) /\ run.useInteractive
                       THEN SUBSET Modules ELSE {{}} :
           LET asked == ~Truthy(module) /\ run.useInteractive
               moduleSelection ==
                   IF Truthy(module) THEN validateModuleFlag(module)
                   ELSE IF ~run.useInteractive
                   THEN [selectedModules |-> <<>>, shouldContinue |-> FALSE]
                   ELSE handleInteractiveModuleSelection(ticked)
           IN  /\ run' = [run EXCEPT
                            !.moduleFlag = module,
                            !.prompted = @ \/ asked,
                            !.selected = moduleSelection.selectedModules,
                            !.result = IF moduleSelection.shouldContinue
                                       THEN @ ELSE "returned"]
               /\ pc' = IF moduleSelection.shouldContinue
                        THEN "confirmModuleAddition" ELSE "done"
    /\ UNCHANGED <<stores, installed, lastSave, adds, ncmd>>

\* Steps 4 and 5 of handleAddCommand: the redirects question and
\* confirmModuleAddition.
confirmModuleAddition ==
    /\ pc = "confirmModuleAddition"
    /\ LET asked == run.useInteractive /\ ~run.dryRun
       IN  \E configureRedirects \in IF asked THEN BOOLEAN ELSE {FALSE},
              shouldProceed \in IF asked THEN BOOLEAN ELSE {TRUE} :
             /\ run' = [run EXCEPT
                          !.prompted = @ \/ asked,
                          !.configureRedirects = configureRedirects,
                          !.result = IF shouldProceed THEN @ ELSE "returned",
                          !.declined = ~shouldProceed]
             /\ pc' = IF shouldProceed THEN "saveModules" ELSE "done"
    /\ UNCHANGED <<stores, installed, lastSave, adds, ncmd>>

\* handleRedirectConfiguration({ useInteractive }): the callback URI it
\* returns, None for null.  A browser that does not open is tolerated.
handleRedirectConfiguration(cc, useInteractive, callbackUri) ==
    LET credentials == loadCredentials(cc)
        provider == IF Truthy(credentials[1].provider)
                    THEN credentials[1].provider ELSE "scalekit"
    IN  IF ~CredentialsUsable(cc) THEN None
        ELSE IF ToLowerCase(provider) # "scalekit" THEN None
        ELSE IF ~useInteractive THEN None
        ELSE callbackUri

\* A faulty merge that concatenates without removing duplicates.
MergeModulesConcat(existingModules, selectedModules) ==
    existingModules \o selectedModules

\* [...new Set([...existingModules, ...selectedModules])]
MergeModules(existingModules, selectedModules) ==
    Dedupe(existingModules \o selectedModules)

\* A faulty additionalConfig that always carries the callbackUri key, null
\* when no redirect was configured.
AddAdditionalConfigWithNull(callbackUri) ==
    IF callbackUri # None
    THEN [NoAdditionalConfig EXCEPT !.callbackUri = Some(callbackUri[1]),
                                    !.redirectsConfigured = Some(TRUE),
                                    !.redirectsConfiguredAt = Some(NOW)]
    ELSE [NoAdditionalConfig EXCEPT !.callbackUri = Some(NULLV)]

\* The additionalConfig saveModulesAndConfiguration builds.
AddAdditionalConfig(callbackUri) ==
    IF callbackUri # None
    THEN [NoAdditionalConfig EXCEPT !.callbackUri = Some(callbackUri[1]),
                                    !.redirectsConfigured = Some(TRUE),
                                    !.redirectsConfiguredAt = Some(NOW)]
    ELSE NoAdditionalConfig

\* The store after saveModulesAndConfiguration(selectedModules,
\* callbackUri, false).
AddModules(ac, selectedModules, callbackUri) ==
    saveAuthModules(ac, MergeModules(getAuthModules(ac), selectedModules),
                    AddAdditionalConfig(callbackUri))

\* Steps 6 and 7 of handleAddCommand: handleRedirectConfiguration when
\* asked for, then saveModulesAndConfiguration.
saveModulesAndConfiguration ==
    /\ pc = "saveModules"
    /\ \E typedResult \in IF run.configureRedirects /\ ~run.dryRun
                           THEN CallbackUriResults ELSE {None} :
         LET callbackUri ==
                 IF run.configureRedirects /\ ~run.dryRun
                 THEN handleRedirectConfiguration(credentialsConfig,
                                                  run.useInteractive,
                                                  typedResult)
                 ELSE None
             allModules == MergeModules(getAuthModules(authModulesConfig),
                                        run.selected)
         IN  IF run.dryRun
             THEN UNCHANGED <<authModulesConfig, lastSave, adds>>
             ELSE /\ authModulesConfig' =
                        AddModules(authModulesConfig, run.selected,
                                   callbackUri)
                  /\ lastSave' =
                        [lastSave EXCEPT
                           !.modules = Some(allModules),
                           !.additional =
                               Some(AddAdditionalConfig(callbackUri))]
                  /\ adds' =
                        IF adds.n = 1
                        THEN [adds EXCEPT !.n = 2, !.second = run.selected]
                        ELSE [NoAdds EXCEPT
                                !.n = 1,
                                !.base = getAuthModules(authModulesConfig),
                                !.first = run.selected]
    /\ run' = [run EXCEPT !.prompted = @ \/ run.configureRedirects,
                          !.result = "returned"]
    /\ pc' = "done"
    /\ UNCHANGED <<credentialsConfig, credFile, toolsConfig, installed,
                   ncmd>>

----------------------------------------------------------------------------
(* generate *)

\* handleGenerateCommand(options) up to the call of ensureCompleteSetup.
GenerateStart ==
    /\ pc = "idle"
    /\ ncmd < MaxCommands
    /\ \E interactive, noInteractive, dryRun \in BOOLEAN :
          /\ validateCommand(interactive, noInteractive, dryRun, FALSE)
          /\ run' = [NoRun EXCEPT
                       !.cmd = "generate",
                       !.useInteractive =
                           shouldUseInteractive(interactive, noInteractive),
                       !.dryRun = dryRun]
    /\ pc' = "checkCredentials"
    /\ ncmd' = ncmd + 1
    /\ UNCHANGED <<stores, installed, lastSave, adds>>

\* A faulty handleGenerateCommand that reports success when
\* ensureCompleteSetup returns false.
SetupIncompleteAsSuccess(r, state) ==
    [r EXCEPT !.setup = "incomplete", !.result = "success",
              !.named = state,
              !.remFailed = state]

\* ensureCompleteSetup returns false; handleGenerateCommand returns
\* CommandResult.failure('Setup incomplete - ...').
SetupIncomplete(r, state) ==
    [r EXCEPT !.setup = "incomplete", !.result = "failure",
              !.named = state,
              !.remFailed = state]

\* 1. Check auth credentials
CheckCredentials ==
    /\ pc = "checkCredentials"
    /\ pc' = IF hasCredentials(credentialsConfig, credFile)
             THEN "checkCallbackUri" ELSE "promptMissingCredentials"
    /\ run' = IF hasCredentials(credentialsConfig, credFile) THEN run
              ELSE [run EXCEPT !.remStarted = @ \cup {"credentials"}]
    /\ UNCHANGED <<stores, installed, lastSave, adds, ncmd>>

\* Every wizard function promptMissingCredentials takes from
\* `await import('./init.js')` and calls is a function, that is, is among
\* the names init.js exports (handleInitCommand only): a name init.js does
\* not export is undefined after the import, and calling it throws a
\* TypeError inside the try block.
WizardImported ==
    {"openScaleKitSignup", "collectEnvironmentId", "openApiCredentialsPage",
     "collectAndValidateCredentials"} \subseteq {"handleInitCommand"}

promptMissingCredentials ==
    /\ pc = "promptMissingCredentials"
    /\ IF ~run.useInteractive
       THEN /\ run' = SetupIncomplete(run, "credentials")
            /\ pc' = "done"
            /\ UNCHANGED <<stores, lastSave>>
       ELSE \E environmentId \in EnvironmentIdAnswers,
               clientId \in ClientIdAnswers,
               clientSecret \in ClientSecretAnswers,
               environmentUrl \in EnvironmentUrlAnswers,
               shouldSave \in BOOLEAN,
               threw \in {t \in BOOLEAN : ~WizardImported => t} :
            LET credentials ==
                    [NoKeys EXCEPT !.environmentId = environmentId,
                                   !.clientId = clientId,
                                   !.clientSecret = clientSecret,
                                   !.environmentUrl = environmentUrl]
            IN  IF threw \/ ~shouldSave
                THEN /\ run' = [SetupIncomplete(run, "credentials")
                                  EXCEPT !.prompted = WizardImported,
                                         !.declined = ~threw]
                     /\ pc' = "done"
                     /\ UNCHANGED <<stores, lastSave>>
                ELSE /\ credentialsConfig' =
                            saveCredentials(credentialsConfig, credentials)
                     /\ credFile' = TRUE
                     /\ lastSave' = [lastSave EXCEPT
                                       !.credentials = Some(credentials)]
                     /\ run' = [run EXCEPT !.prompted = TRUE]
                     /\ pc' = "checkCallbackUri"
                     /\ UNCHANGED <<toolsConfig, authModulesConfig>>
    /\ UNCHANGED <<installed, adds, ncmd>>

\* 2. Check callback URI
CheckCallbackUri ==
    /\ pc = "checkCallbackUri"
    /\ IF CallbackUriTruthy(authModulesConfig)
       THEN pc' = "checkAuthModules" /\ run' = run
       ELSE IF run.useInteractive
       THEN /\ pc' = "handleConfigureRedirects"
            /\ run' = [run EXCEPT !.remStarted = @ \cup {"callback"}]
       ELSE /\ pc' = "done"
            /\ run' = SetupIncomplete(run, "callback")
    /\ UNCHANGED <<stores, installed, lastSave, adds, ncmd>>

\* The redirect flow run by the orchestrator; whatever it returns or
\* throws, the orchestrator goes on to the auth modules.
ConfigureRedirectsInSetup ==
    /\ pc = "handleConfigureRedirects"
    /\ \E in \in RedirectAnswers :
         LET out == handleConfigureRedirects(credentialsConfig,
                                             authModulesConfig, TRUE, in)
         IN  /\ authModulesConfig' = out.auth
             /\ lastSave' = IF out.saved
                            THEN [lastSave EXCEPT
                                    !.modules = Some(out.modules),
                                    !.additional = Some(out.additional)]
                            ELSE lastSave
             /\ adds' = IF out.saved THEN NoAdds ELSE adds
             /\ run' = [run EXCEPT
                          !.prompted = @ \/ out.prompted,
                          !.remFailed = IF out.saved THEN @ ELSE "callback"]
    /\ pc' = "checkAuthModules"
    /\ UNCHANGED <<credentialsConfig, credFile, toolsConfig, installed, ncmd>>

\* 3. Check auth modules
CheckAuthModules ==
    /\ pc = "checkAuthModules"
    /\ pc' = IF hasAuthModules(authModulesConfig)
             THEN "checkBroker" ELSE "promptMissingAuthModules"
    /\ run' = IF hasAuthModules(authModulesConfig) THEN run
              ELSE [run EXCEPT !.remStarted = @ \cup {"modules"}]
    /\ UNCHANGED <<stores, installed, lastSave, adds, ncmd>>

promptMissingAuthModules ==
    /\ pc = "promptMissingAuthModules"
    /\ IF ~run.useInteractive
       THEN /\ run' = SetupIncomplete(run, "modules")
            /\ pc' = "done"
            /\ UNCHANGED <<stores, lastSave, adds>>
       ELSE \E ticked \in SUBSET Modules, threw \in BOOLEAN :
            LET selectedModules == ChoiceOrder(SUPPORTED_AUTH_MODULES, ticked)
            IN  IF threw
                THEN /\ run' = [SetupIncomplete(run, "modules")
                                  EXCEPT !.prompted = TRUE]
                     /\ pc' = "done"
                     /\ UNCHANGED <<stores, lastSave, adds>>
                ELSE IF Len(selectedModules) = 0
                THEN /\ run' = [run EXCEPT !.prompted = TRUE]
                     /\ pc' = "checkBroker"
                     /\ UNCHANGED <<stores, lastSave, adds>>
                ELSE /\ authModulesConfig' =
                            saveAuthModules(authModulesConfig,
                                            selectedModules,
                                            NoAdditionalConfig)
                     /\ lastSave' = [lastSave EXCEPT
                                       !.modules = Some(selectedModules),
                                       !.additional = Some(NoAdditionalConfig)]
                     /\ adds' = NoAdds
                     /\ run' = [run EXCEPT !.prompted = TRUE]
                     /\ pc' = "checkBroker"
                     /\ UNCHANGED <<credentialsConfig, credFile, toolsConfig>>
    /\ UNCHANGED <<installed, ncmd>>

\* 4. Check LLM broker
CheckBroker ==
    /\ pc = "checkBroker"
    /\ IF Truthy(loadPreferredBroker(toolsConfig))
       THEN /\ pc' = "validateModuleSelection"
            /\ run' = [run EXCEPT !.setup = "complete"]
       ELSE /\ pc' = "promptMissingLLMBroker"
            /\ run' = [run EXCEPT !.remStarted = @ \cup {"broker"}]
    /\ UNCHANGED <<stores, installed, lastSave, adds, ncmd>>

promptMissingLLMBroker ==
    /\ pc = "promptMissingLLMBroker"
    /\ IF ~run.useInteractive
       THEN /\ run' = SetupIncomplete(run, "broker")
            /\ pc' = "done"
            /\ UNCHANGED <<stores, lastSave>>
       ELSE \E selectedBroker \in Brokers, threw \in BOOLEAN :
            IF threw
            THEN /\ run' = [SetupIncomplete(run, "broker")
                              EXCEPT !.prompted = TRUE]
                 /\ pc' = "done"
                 /\ UNCHANGED <<stores, lastSave>>
            ELSE /\ toolsConfig' =
                        savePreferredBroker(toolsConfig, selectedBroker)
                 /\ lastSave' = [lastSave EXCEPT
                                   !.broker = Some(selectedBroker)]
                 /\ run' = [run EXCEPT !.prompted = TRUE,
                                       !.setup = "complete"]
                 /\ pc' = "validateModuleSelection"
                 /\ UNCHANGED <<credentialsConfig, credFile,
                                authModulesConfig>>
    /\ UNCHANGED <<installed, adds, ncmd>>

\* validateModuleSelection(handler, moduleFlag, getAuthModules()) and the
\* branch of handleGenerateCommand on its result.  The --module flag is
\* not read before this point, so its value is drawn here.
validateModuleSelection ==
    /\ pc = "validateModuleSelection"
    /\ \E moduleFlag \in ModuleFlags :
       LET savedModules == getAuthModules(authModulesConfig)
           normalized == ToLowerCase(moduleFlag)
           flagged == [run EXCEPT !.moduleFlag = moduleFlag]
           cancelled == [flagged EXCEPT !.result = "success"]
       IN  IF Len(savedModules) = 0
           THEN /\ run' = cancelled
                /\ pc' = "done"
                /\ UNCHANGED <<authModulesConfig, lastSave, adds>>
           ELSE IF Truthy(moduleFlag)
           THEN /\ IF ~Includes(savedModules, normalized)
                   THEN /\ run' = [flagged EXCEPT !.result = "failure",
                                                  !.named = "module"]
                        /\ pc' = "done"
                   ELSE /\ run' = [flagged EXCEPT
                                     !.selected = <<normalized>>]
                        /\ pc' = "dispatch"
                /\ UNCHANGED <<authModulesConfig, lastSave, adds>>
           ELSE IF run.useInteractive
           THEN \* validateInteractiveModuleSelection
                \E selectedModule \in Modules :
                   /\ authModulesConfig' =
                          saveAuthModules(authModulesConfig,
                                          <<selectedModule>>,
                                          NoAdditionalConfig)
                   /\ lastSave' = [lastSave EXCEPT
                                     !.modules = Some(<<selectedModule>>),
                                     !.additional = Some(NoAdditionalConfig)]
                   /\ adds' = NoAdds
                   /\ run' = [flagged EXCEPT
                                !.prompted = TRUE,
                                !.selected = <<selectedModule>>]
                   /\ pc' = "dispatch"
           ELSE IF Len(savedModules) > 1
           THEN /\ run' = cancelled
                /\ pc' = "done"
                /\ UNCHANGED <<authModulesConfig, lastSave, adds>>
           ELSE /\ run' = [flagged EXCEPT !.selected = savedModules]
                /\ pc' = "dispatch"
                /\ UNCHANGED <<authModulesConfig, lastSave, adds>>
    /\ UNCHANGED <<credentialsConfig, credFile, toolsConfig, installed, ncmd>>

\* createTempPromptFile(prompt): the state of the run's temporary prompt
\* file once it is written.
createTempPromptFile == "exists"

\* cleanupTempFiles(tempFile): the file is unlinked when it exists.
cleanupTempFilesKeep(tempFile) == tempFile

cleanupTempFiles(tempFile) ==
    IF tempFile = "exists" THEN "deleted" ELSE tempFile

\* The executable an integration handler passes to execa.
execaDefault(broker) == DEFAULT_BROKER

execa(broker) == broker

\* What handleGenerateCommand returns once an integration handler has
\* returned, whether or not the handler invoked anything.
GenerationCompleted == "success"

\* The switch on preferredBroker in handleGenerateCommand and the first
\* half of the integration handler it calls (handleClaudeIntegration,
\* handleGeminiIntegration, handleCursorAgentIntegration): the first
\* detection of the executable and, when it is missing, the broker
\* configuration flow.  The executable may get installed while that flow
\* waits for the user.
Dispatch ==
    /\ pc = "dispatch"
    /\ LET loaded == loadPreferredBroker(toolsConfig)
           preferredBroker == IF Truthy(loaded) THEN ToLowerCase(loaded)
                              ELSE ""
           available == preferredBroker \in installed
           checked == [run EXCEPT !.broker = preferredBroker,
                                  !.detections = @ + 1]
       IN  IF preferredBroker \notin {"claude", "gemini", "cursor-agent"}
           THEN /\ run' = [run EXCEPT !.result = "failure",
                                      !.named = "broker"]
                /\ pc' = "done"
                /\ UNCHANGED <<toolsConfig, lastSave, installed>>
           ELSE IF ~available
           THEN \* broker configuration is launched with interactive: true
                \E in \in BrokerAnswers :
                   LET out == handleConfigureLLMBroker(
                                  toolsConfig, ABSENT, TRUE, FALSE, FALSE, in)
                   IN  /\ toolsConfig' = out.tools
                       /\ lastSave' =
                              IF out.saved
                              THEN [lastSave EXCEPT
                                      !.tools = Some(out.detected),
                                      !.broker = Some(out.broker)]
                              ELSE lastSave
                       /\ run' = [checked EXCEPT !.prompted = TRUE,
                                                 !.configFlows = @ + 1]
                       /\ installed' \in
                              {installed,
                               installed \cup
                                   ({preferredBroker} \cap Installable)}
                       /\ pc' = "recheck"
           ELSE /\ run' = checked
                /\ pc' = "recheck"
                /\ UNCHANGED <<toolsConfig, lastSave, installed>>
    /\ UNCHANGED <<credentialsConfig, credFile, authModulesConfig,
                   adds, ncmd>>

\* The second detection of the integration handler and its two early
\* returns: executable still missing, and dry run.
Recheck ==
    /\ pc = "recheck"
    /\ LET stillAvailable == run.broker \in installed
           checked == [run EXCEPT !.detections = @ + 1]
       IN  IF ~stillAvailable \/ run.dryRun
           THEN /\ run' = [checked EXCEPT !.result = GenerationCompleted]
                /\ pc' = "done"
           ELSE /\ run' = checked
                /\ pc' = "invoke"
    /\ UNCHANGED <<stores, installed, lastSave, adds, ncmd>>

\* createTempPromptFile and the execa call of invoke<Broker>Interactive /
\* invoke<Broker>Headless: the child process is started.
Invoke ==
    /\ pc = "invoke"
    /\ run' = [run EXCEPT !.tempFile = createTempPromptFile,
                          !.spawned = @ \cup {execa(run.broker)},
                          !.spawnCount = @ + 1]
    /\ pc' = "child"
    /\ UNCHANGED <<stores, installed, lastSave, adds, ncmd>>

\* The child exits, normally or not; catch logs, finally runs
\* cleanupTempFiles, the handler returns and so does handleGenerateCommand.
ChildExit ==
    /\ pc = "child"
    /\ \E failed \in BOOLEAN :
          run' = [run EXCEPT !.childFailed = failed,
                             !.tempFile = cleanupTempFiles(@),
                             !.result = GenerationCompleted]
    /\ pc' = "done"
    /\ UNCHANGED <<stores, installed, lastSave, adds, ncmd>>

\* The command has returned; the process ends.
Finish ==
    /\ pc = "done"
    /\ pc' = "idle"
    /\ run' = NoRun
    /\ lastSave' = NoSave
    /\ UNCHANGED <<stores, installed, adds, ncmd>>

Next ==
    \/ AddStart
    \/ validateCredentials
    \/ selectModules
    \/ confirmModuleAddition
    \/ saveModulesAndConfiguration
    \/ InitCommand
    \/ ConfigureAuth
    \/ ConfigureRedirects
    \/ ConfigureLLM
    \/ GenerateStart
    \/ CheckCredentials
    \/ promptMissingCredentials
    \/ CheckCallbackUri
    \/ ConfigureRedirectsInSetup
    \/ CheckAuthModules
    \/ promptMissingAuthModules
    \/ CheckBroker
    \/ promptMissingLLMBroker
    \/ validateModuleSelection
    \/ Dispatch
    \/ Recheck
    \/ Invoke
    \/ ChildExit
    \/ Finish

Spec == Init /\ [][Next]_vars

----------------------------------------------------------------------------
(* add, started from an environment that already holds modules *)

\* The duplicate-free module lists the modules record can hold.
ModuleLists ==
    {l \in UNION {[1..n -> Modules] : n \in 0..Len(SUPPORTED_AUTH_MODULES)} :
        NoDuplicates(l)}

\* The modules record after the list `l` was saved into a fresh store.
StoredModules(l) ==
    IF l = <<>> THEN DefaultAuthModulesConfig
    ELSE saveAuthModules(DefaultAuthModulesConfig, l, NoAdditionalConfig)

\* The credentials store after the init wizard saved its answers.
StoredCredentials ==
    saveCredentials(EmptyCredentialsConfig,
                    CredentialsOf(CHOOSE a \in InitAnswers : a.shouldSave))

InitAdd ==
    /\ \E configured \in BOOLEAN :
         /\ credentialsConfig = IF configured THEN StoredCredentials
                                ELSE EmptyCredentialsConfig
         /\ credFile = configured
    /\ toolsConfig = DefaultToolsConfig
    /\ authModulesConfig \in {StoredModules(l) : l \in ModuleLists}
    /\ installed \in SUBSET Installable
    /\ pc = "idle"
    /\ run = NoRun
    /\ lastSave = NoSave
    /\ adds = NoAdds
    /\ ncmd = 0

\* generate run in an environment that earlier commands have set up to any
\* degree: credentials stored by the init wizard or not, up to two modules
\* stored by add with or without a callback URI, a preferred broker stored
\* by configure llm or not.
InitGenerate ==
    /\ \E configured \in BOOLEAN :
         /\ credentialsConfig = IF configured THEN StoredCredentials
                                ELSE EmptyCredentialsConfig
         /\ credFile = configured
    /\ toolsConfig \in
         {DefaultToolsConfig} \cup
         {savePreferredBroker(DefaultToolsConfig, b) : b \in Brokers}
    /\ authModulesConfig \in
         {StoredModules(l) : l \in {m \in ModuleLists : Len(m) <= 2}} \cup
         {AddModules(DefaultAuthModulesConfig, l,
                     CHOOSE u \in CallbackUriResults : u # None) :
              l \in {m \in ModuleLists : Len(m) <= 2}}
    /\ installed \in SUBSET Installable
    /\ pc = "idle"
    /\ run = NoRun
    /\ lastSave = NoSave
    /\ adds = NoAdds
    /\ ncmd = 0

NextGenerate ==
    \/ GenerateStart
    \/ CheckCredentials
    \/ promptMissingCredentials
    \/ CheckCallbackUri
    \/ ConfigureRedirectsInSetup
    \/ CheckAuthModules
    \/ promptMissingAuthModules
    \/ CheckBroker
    \/ promptMissingLLMBroker
    \/ validateModuleSelection
    \/ Dispatch
    \/ Recheck
    \/ Invoke
    \/ ChildExit
    \/ Finish

SpecGenerate == InitGenerate /\ [][NextGenerate]_vars

NextAdd ==
    \/ AddStart
    \/ validateCredentials
    \/ selectModules
    \/ confirmModuleAddition
    \/ saveModulesAndConfiguration
    \/ Finish

SpecAdd == InitAdd /\ [][NextAdd]_vars

----------------------------------------------------------------------------
(* Properties *)

\* The program counter at which the remediation flow of a state runs.
RemediationPc(s) ==
    CASE s = "credentials" -> "promptMissingCredentials"
      [] s = "callback" -> "handleConfigureRedirects"
      [] s = "modules" -> "promptMissingAuthModules"
      [] s = "broker" -> "promptMissingLLMBroker"

\* The first state, in the orchestrator's order, that is unsatisfied.
FirstUnsatisfied ==
    LET i == CHOOSE k \in 1..Len(States) :
                 /\ ~Satisfied(States[k])
                 /\ \A j \in 1..(k - 1) : Satisfied(States[j])
    IN  States[i]

\* C1: in a run of the orchestrator the remediation flow of a state is
\* never running while the state before it, in the order credentials,
\* callback URI, auth modules, broker, is unsatisfied in the stores.
C1_RemediationInOrder ==
    \A i \in 2..Len(States) :
        (run.cmd = "generate" /\ run.useInteractive
         /\ pc = RemediationPc(States[i]))
            => Satisfied(States[i - 1])

\* C2: once the remediation flow of a state has failed or was cancelled,
\* the orchestrator has returned incomplete and the run is over: no check,
\* prompt or write of a later state follows.
C2_AbortOnFailedRemediation ==
    (run.cmd = "generate" /\ run.remFailed # "none")
        => (pc = "done" /\ run.setup = "incomplete")

\* C3: whenever the orchestrator has returned complete, credentials are
\* present, callbackUri is non-empty, selectedModules is non-empty and
\* preferredBroker is set.
C3_CompleteMeansAllSatisfied ==
    (run.cmd = "generate" /\ run.setup = "complete")
        => \A i \in 1..Len(States) : Satisfied(States[i])

\* A non-interactive generate run in an environment where some
\* orchestrator state is unsatisfied.
NonInteractiveUnsatisfied ==
    /\ run.cmd = "generate"
    /\ ~run.useInteractive
    /\ \E i \in 1..Len(States) : ~Satisfied(States[i])

\* C4: a non-interactive generate with an unsatisfied orchestrator state
\* changes no store, issues no prompt and spawns no broker, and when it
\* ends it has failed, naming the first unsatisfied step.
C4_NonInteractiveFailsFast ==
    [][NonInteractiveUnsatisfied' =>
          /\ stores' = stores
          /\ ~run'.prompted
          /\ run'.spawned = {}
          /\ pc' = "done" =>
                /\ run'.result = "failure"
                /\ run'.setup = "incomplete"
                /\ run'.named = FirstUnsatisfied']_vars

\* C4 witness: generate --no-interactive has ended with credentials
\* stored and the callback URI missing, and named the callback step.
C4_Witness ==
    /\ pc = "done"
    /\ run.cmd = "generate"
    /\ ~run.useInteractive
    /\ Satisfied("credentials")
    /\ ~Satisfied("callback")
    /\ run.named = "callback"

\* The stored record holds the provider and non-empty environmentId,
\* clientId and clientSecret.
CredentialsComplete ==
    LET credentials == loadCredentials(credentialsConfig)
    IN  /\ credentials # None
        /\ Truthy(credentials[1].provider)
        /\ Truthy(credentials[1].environmentId)
        /\ Truthy(credentials[1].clientId)
        /\ Truthy(credentials[1].clientSecret)

\* C5: hasCredentials is true exactly when a record is stored that holds
\* the provider and non-empty environmentId, clientId and clientSecret.
C5_HasCredentialsIffComplete ==
    hasCredentials(credentialsConfig, credFile) <=> CredentialsComplete

\* C6: the stored credentials record is absent, or holds a provider
\* together with non-empty environmentId, clientId, clientSecret and
\* environmentUrl.
C6_CredentialsAllOrNothing ==
    LET credentials == loadCredentials(credentialsConfig)
    IN  \/ credentials = None
        \/ /\ Truthy(credentials[1].provider)
           /\ Truthy(credentials[1].environmentId)
           /\ Truthy(credentials[1].clientId)
           /\ Truthy(credentials[1].clientSecret)
           /\ Truthy(credentials[1].environmentUrl)

\* C7: a step that changes an existing credentials record belongs to a
\* command other than init that was run with --force or in which the user
\* said yes to the overwrite question; no step removes the record.
C7_OverwriteOnlyWhenAllowed ==
    [][loadCredentials(credentialsConfig) # None =>
          /\ loadCredentials(credentialsConfig') # None
          /\ loadCredentials(credentialsConfig')
                 # loadCredentials(credentialsConfig) =>
                /\ run'.cmd # "init"
                /\ run'.force \/ run'.overwriteConfirmed]_vars

\* C7 witness: configure auth has replaced an existing record after the
\* user confirmed the overwrite.
C7_Witness ==
    /\ pc = "done"
    /\ run.cmd = "configure auth"
    /\ run.overwriteConfirmed
    /\ ~run.force
    /\ lastSave.credentials # None
    /\ loadCredentials(credentialsConfig) = lastSave.credentials

\* C8: no step removes a member from the stored selectedModules.
C8_ModulesNeverShrink ==
    [][SeqToSet(getAuthModules(authModulesConfig))
          \subseteq SeqToSet(getAuthModules(authModulesConfig'))]_vars

\* C9: after add of A and then add of B onto the stored list S, the stored
\* modules are S, A and B together, without duplicates, and adding B
\* before A gives the same set.
C9_AddIsUnion ==
    adds.n = 2 =>
        LET stored == getAuthModules(authModulesConfig)
            opposite == MergeModules(MergeModules(adds.base, adds.second),
                                     adds.first)
        IN  /\ SeqToSet(stored) = SeqToSet(adds.base)
                                      \cup SeqToSet(adds.first)
                                      \cup SeqToSet(adds.second)
            /\ NoDuplicates(stored)
            /\ SeqToSet(opposite) = SeqToSet(stored)
            /\ NoDuplicates(opposite)

\* C9 witness: two adds have run onto a non-empty stored list, the second
\* overlapping both the list and the first.
C9_Witness ==
    /\ adds.n = 2
    /\ adds.base # <<>>
    /\ adds.first # adds.second
    /\ SeqToSet(adds.first) \cap SeqToSet(adds.second) # {}
    /\ SeqToSet(adds.base) \cap SeqToSet(adds.second) # {}
    /\ ~(SeqToSet(adds.second) \subseteq SeqToSet(adds.base))

\* The fields of the modules record a caller of saveAuthModules supplied
\* in the last save.
SuppliedKeys ==
    {k \in AuthKeys : lastSave.additional[1][k] # None}

\* The keys loadAuthModules returns.
LoadedAuthKeys == {"selectedModules", "selectedAt", "version", "callbackUri"}

\* Credentials, tool detection and preferred broker load as last saved.
RoundTripOthers ==
    /\ lastSave.credentials # None =>
          loadCredentials(credentialsConfig) = lastSave.credentials
    /\ lastSave.tools # None =>
          /\ loadToolDetection(toolsConfig) # None
          /\ loadToolDetection(toolsConfig)[1].tools = lastSave.tools[1]
    /\ lastSave.broker # None =>
          loadPreferredBroker(toolsConfig) = lastSave.broker[1]

\* The modules record loads as last saved, in the fields `keys`.
RoundTripAuthModules(keys) ==
    lastSave.modules # None =>
        LET loaded == loadAuthModules(authModulesConfig)
        IN  /\ loaded # None
            /\ loaded[1].selectedModules = lastSave.modules[1]
            /\ \A k \in SuppliedKeys \cap keys :
                  /\ k \in DOMAIN loaded[1]
                  /\ lastSave.additional[1][k] =
                        IF k = "callbackUri" THEN loaded[1][k]
                        ELSE Some(loaded[1][k])

\* C10 as stated: after a save, the matching load returns the saved value
\* in every field the caller supplied.
C10_RoundTripEveryField == RoundTripOthers /\ RoundTripAuthModules(AuthKeys)

\* C10: after a save, the matching load returns the saved value; for the
\* modules record in selectedModules, selectedAt, version and callbackUri,
\* the fields loadAuthModules returns.
C10_RoundTrip == RoundTripOthers /\ RoundTripAuthModules(LoadedAuthKeys)

\* C10 witness: modules were saved together with a callback URI and the
\* redirect bookkeeping fields.
C10_Witness ==
    /\ lastSave.modules # None
    /\ lastSave.modules[1] # <<>>
    /\ lastSave.additional[1].callbackUri # None
    /\ lastSave.additional[1].redirectsConfigured # None
    /\ getCallbackUri(authModulesConfig) = lastSave.additional[1].callbackUri

\* C11: the stored preferredBroker is absent or one of gemini, claude and
\* cursor-agent, whichever command stored it and whether or not its
\* executable is installed.
C11_BrokerIsAllowed ==
    \/ ~Truthy(loadPreferredBroker(toolsConfig))
    \/ loadPreferredBroker(toolsConfig) \in Brokers

\* C11 witness: configure llm has stored claude as the preferred broker
\* while the claude executable is not installed.
C11_Witness ==
    /\ pc = "done"
    /\ run.cmd = "configure llm"
    /\ lastSave.broker = Some("claude")
    /\ loadPreferredBroker(toolsConfig) = "claude"
    /\ "claude" \notin installed

----------------------------------------------------------------------------
(* The prompt operations of utils/interactive.js, called directly *)

\* promptIfInteractive(interactive, question, defaultValue), inquirer
\* answering `answer`.
promptIfInteractive(interactive, defaultValue, answer) ==
    IF ~interactive THEN [value |-> defaultValue, prompted |-> FALSE]
    ELSE [value |-> answer, prompted |-> TRUE]

\* selectIfInteractive(interactive, question, choices, defaultValue)
selectIfInteractive(interactive, defaultValue, answer) ==
    IF ~interactive THEN [value |-> defaultValue, prompted |-> FALSE]
    ELSE [value |-> answer, prompted |-> TRUE]

\* multiselectIfInteractive(interactive, question, choices, defaults)
multiselectIfInteractive(interactive, defaultValue, answer) ==
    IF ~interactive THEN [value |-> defaultValue, prompted |-> FALSE]
    ELSE [value |-> answer, prompted |-> TRUE]

\* A faulty confirmIfInteractive that answers no when the gate is false.
confirmIfInteractiveNo(interactive, defaultValue, answer) ==
    IF ~interactive THEN [value |-> FALSE, prompted |-> FALSE]
    ELSE [value |-> answer, prompted |-> TRUE]

\* confirmIfInteractive(interactive, question, defaultValue)
confirmIfInteractive(interactive, defaultValue, answer) ==
    IF ~interactive THEN [value |-> defaultValue, prompted |-> FALSE]
    ELSE [value |-> answer, prompted |-> TRUE]

\* Text the user can type at an input prompt, and defaults given to it.
TextAnswers == {"", "a", "b"}

\* The observation of one call of the operation `op`.
Called(op, interactive, defaultValue, out) ==
    [NoRun EXCEPT !.cmd = "adapter",
                  !.useInteractive = interactive,
                  !.prompted = out.prompted,
                  !.result = "returned",
                  !.adapter = [op |-> op, interactive |-> interactive,
                               default |-> defaultValue,
                               value |-> out.value,
                               prompted |-> out.prompted]]

PromptCall ==
    /\ pc = "idle"
    /\ \E interactive \in BOOLEAN, defaultValue, answer \in TextAnswers :
         run' = Called("prompt", interactive, defaultValue,
                       promptIfInteractive(interactive, defaultValue, answer))
    /\ pc' = "done"
    /\ UNCHANGED <<stores, installed, lastSave, adds, ncmd>>

SelectCall ==
    /\ pc = "idle"
    /\ \E interactive \in BOOLEAN, defaultValue \in Brokers \cup {NULLV},
          answer \in Brokers :
         run' = Called("select", interactive, defaultValue,
                       selectIfInteractive(interactive, defaultValue, answer))
    /\ pc' = "done"
    /\ UNCHANGED <<stores, installed, lastSave, adds, ncmd>>

MultiselectCall ==
    /\ pc = "idle"
    /\ \E interactive \in BOOLEAN, defaults, ticked \in SUBSET Modules :
         run' = Called("multiselect", interactive,
                       ChoiceOrder(SUPPORTED_AUTH_MODULES, defaults),
                       multiselectIfInteractive(
                           interactive,
                           ChoiceOrder(SUPPORTED_AUTH_MODULES, defaults),
                           ChoiceOrder(SUPPORTED_AUTH_MODULES, ticked)))
    /\ pc' = "done"
    /\ UNCHANGED <<stores, installed, lastSave, adds, ncmd>>

ConfirmCall ==
    /\ pc = "idle"
    /\ \E interactive, defaultValue, answer \in BOOLEAN :
         run' = Called("confirm", interactive, defaultValue,
                       confirmIfInteractive(interactive, defaultValue, answer))
    /\ pc' = "done"
    /\ UNCHANGED <<stores, installed, lastSave, adds, ncmd>>

NextPrompt ==
    \/ PromptCall
    \/ SelectCall
    \/ MultiselectCall
    \/ ConfirmCall
    \/ Finish

SpecPrompt == Init /\ [][NextPrompt]_vars

\* C12: a prompt operation called with the gate false returns exactly the
\* default it was given and does not prompt.
C12_GateFalseReturnsDefault ==
    (run.cmd = "adapter" /\ ~run.adapter.interactive)
        => /\ run.adapter.value = run.adapter.default
           /\ ~run.adapter.prompted

\* C12 witness: confirmIfInteractive was called with the gate false and
\* the default true, and returned true.
C12_Witness ==
    /\ run.cmd = "adapter"
    /\ run.adapter.op = "confirm"
    /\ ~run.adapter.interactive
    /\ run.adapter.default = TRUE
    /\ run.adapter.value = TRUE


----------------------------------------------------------------------------
(* Non-interactive runs *)

\* C13: a command whose run is in non-interactive mode issues no
\* interactive prompt at any point of the run, whichever command it is and
\* also when generate finds that the preferred broker's executable is not
\* installed.
C13_NoPromptWhenNonInteractive ==
    (run.cmd # "none" /\ ~run.useInteractive) => ~run.prompted


----------------------------------------------------------------------------
(* Module selection for generate *)

\* The validator of a generate run takes its step.
ValidatorStep == pc = "validateModuleSelection" /\ pc' # pc

\* C14: when generate is given --module and the lower-cased value is not in
\* the persisted selectedModules, the run ends with a validation failure
\* that names the module, selects no module, invokes no broker and leaves
\* the persisted set unchanged; when the value is in the set, exactly that
\* one module is selected.
C14_ModuleFlagMustBePersisted ==
    [][(ValidatorStep /\ Truthy(run'.moduleFlag)) =>
         LET normalized == ToLowerCase(run'.moduleFlag)
         IN  IF Includes(getAuthModules(authModulesConfig), normalized)
             THEN /\ run'.selected = <<normalized>>
                  /\ pc' = "dispatch"
             ELSE /\ pc' = "done"
                  /\ run'.result = "failure"
                  /\ run'.named = "module"
                  /\ run'.selected = <<>>
                  /\ run'.spawnCount = 0
                  /\ authModulesConfig' = authModulesConfig]_vars

\* C15: in non-interactive mode without --module, generate selects the
\* persisted module when exactly one is persisted, and when more than one
\* is persisted it fails with an ambiguous-selection error, selecting none
\* and invoking no broker.
C15_NonInteractiveSelection ==
    [][(ValidatorStep /\ ~Truthy(run'.moduleFlag) /\ ~run.useInteractive) =>
         LET savedModules == getAuthModules(authModulesConfig)
         IN  /\ Len(savedModules) = 1 =>
                  /\ run'.selected = savedModules
                  /\ pc' = "dispatch"
             /\ Len(savedModules) > 1 =>
                  /\ pc' = "done"
                  /\ run'.result = "failure"
                  /\ run'.selected = <<>>
                  /\ run'.spawnCount = 0]_vars

\* C16: in interactive mode without --module, the module generate goes on
\* with is exactly one, and it is a member of the selectedModules that were
\* persisted before the prompt was shown.
C16_InteractiveSelectionIsPersisted ==
    [][(ValidatorStep /\ ~Truthy(run'.moduleFlag) /\ run.useInteractive
          /\ pc' = "dispatch") =>
         /\ Len(run'.selected) = 1
         /\ Includes(getAuthModules(authModulesConfig), run'.selected[1])]_vars

----------------------------------------------------------------------------
(* Broker invocation *)

\* The switch of handleGenerateCommand takes its step.
DispatchStep == pc = "dispatch" /\ pc' # pc

C18_TempFileDeleted ==
    /\ (run.cmd = "generate" /\ pc = "done") => run.tempFile # "exists"
    /\ run.tempFile # "none" =>
          /\ ~run.dryRun
          /\ run.broker \in installed
          /\ run.spawnCount = 1

C18_Witness ==
    /\ pc = "done"
    /\ run.cmd = "generate"
    /\ run.spawnCount = 1
    /\ run.childFailed
    /\ run.tempFile = "deleted"

\* C19: when the preferred broker's executable is not detected at dispatch
\* time, generate runs the broker-configuration flow exactly once and
\* detects again exactly once; if the executable is still not detected it
\* spawns no broker process, does not retry, and the run is reported as
\* failed.
C19_OneRemediationThenFail ==
    (pc = "done" /\ run.cmd = "generate" /\ run.configFlows > 0) =>
        /\ run.configFlows = 1
        /\ run.detections = 2
        /\ run.broker \notin installed =>
              /\ run.spawnCount = 0
              /\ run.result = "failure"

----------------------------------------------------------------------------
(* Non-interactive init *)

FourFields == {"environmentId", "clientId", "clientSecret", "environmentUrl"}

\* `init --no-interactive` is run with provider scalekit and all four
\* credential flags while nothing is stored.
FreshNonInteractiveInit ==
    /\ pc = "idle"
    /\ loadCredentials(credentialsConfig) = None
    /\ ~credFile
    /\ run'.cmd = "init"
    /\ ~run'.useInteractive
    /\ run'.initFlags.provider = "scalekit"
    /\ MissingParams(run'.initFlags) = {}

\* C20: starting with no stored credentials, init in non-interactive mode
\* with provider scalekit and all of environment-id, client-id,
\* client-secret and environment-url stores a credentials record that
\* contains exactly those four values plus a configuredAt timestamp, and
\* the command ends with exit code 0 (it returns without throwing).
C20_FreshInitStoresRecord ==
    [][FreshNonInteractiveInit =>
         LET stored == loadCredentials(credentialsConfig')
         IN  /\ stored # None
             /\ credFile'
             /\ \A k \in FourFields : stored[1][k] = run'.initFlags[k]
             /\ Truthy(stored[1].configuredAt)
             /\ ObjectKeys(stored[1]) = FourFields \cup {"configuredAt"}
             /\ run'.result = "returned"]_vars

\* The flags validateNonInteractiveParams rejects: one of the five is
\* missing, or the provider is not scalekit.
BadInitFlags(flags) ==
    \/ MissingParams(flags) # {}
    \/ ToLowerCase(flags.provider) # "scalekit"

\* init starts in non-interactive mode with flags that do not validate.
BadNonInteractiveInit ==
    /\ pc = "idle"
    /\ run'.cmd = "init"
    /\ ~run'.useInteractive
    /\ BadInitFlags(run'.initFlags)

\* What C21 expects of such a run: nothing stored, no prompt, an error
\* raised that lists exactly the missing flags.
RejectedInit ==
    /\ stores' = stores
    /\ ~run'.prompted
    /\ run'.result = "threw"
    /\ run'.missing = MissingParams(run'.initFlags)

\* C21 as stated: init in non-interactive mode with any of the five flags
\* missing, or with a provider other than scalekit, stores nothing, issues
\* no prompt and reports an error that lists exactly the missing flags.
C21_BadFlagsRejected == [][BadNonInteractiveInit => RejectedInit]_vars

\* C21, amended: the same when hasCredentials is false before the run (with
\* credentials stored, init returns before it looks at the flags).
C21_BadFlagsRejectedWhenFresh ==
    [][(BadNonInteractiveInit /\ ~hasCredentials(credentialsConfig, credFile))
         => RejectedInit]_vars

C21_Witness ==
    /\ pc = "done"
    /\ run.cmd = "init"
    /\ ~run.useInteractive
    /\ run.result = "threw"
    /\ run.initFlags.clientSecret = ABSENT
    /\ run.missing = {"clientSecret"}
    /\ credentialsConfig = EmptyCredentialsConfig

----------------------------------------------------------------------------
(* check *)

\* Every executable detectTools looks for.
AllExecutables == {Executable(t) : t \in ToolNames}

\* The number of detected tools in a detection result.
Available(results) == Cardinality({t \in DOMAIN results : results[t]})

\* Running the task list of createToolDetectionTasks: the context the three
\* detection tasks fill, and whether the analysis task threw (it does when
\* nothing was detected; exitOnError then rejects the run).
createToolDetectionTasks ==
    [ctx |-> detectTools, threw |-> Available(detectTools) = 0]

\* A faulty detectToolsWithTaskList that lets the task list's error through.
detectToolsWithTaskListRethrowing(tasks) ==
    [results |-> tasks.ctx, threw |-> tasks.threw]

\* detectToolsWithTaskList(verbose): the detection result of the task list;
\* detection does not throw.
detectToolsWithTaskList(tasks) == [results |-> tasks.ctx, threw |-> FALSE]

\* displayToolResults(results, verbose): the "n/total AI tools available"
\* summary line.
displayToolResults(results) ==
    <<Available(results), Cardinality(DOMAIN results)>>

\* handleCheckCommand(flags): returns the results, or exits with code 1
\* from its catch block.
CheckCommand ==
    /\ pc = "idle"
    /\ ncmd < MaxCommands
    /\ LET out == detectToolsWithTaskList(createToolDetectionTasks)
       IN  run' = IF out.threw
                  THEN [NoRun EXCEPT !.cmd = "check", !.result = "exit1"]
                  ELSE [NoRun EXCEPT
                          !.cmd = "check", !.result = "returned",
                          !.summary = displayToolResults(out.results)]
    /\ pc' = "done"
    /\ ncmd' = ncmd + 1
    /\ UNCHANGED <<stores, installed, lastSave, adds>>

\* check on a machine with any subset of the three tools installed, and a
\* store that already holds records.
InitCheck ==
    /\ \E configured \in BOOLEAN :
         /\ credentialsConfig = IF configured THEN StoredCredentials
                                ELSE EmptyCredentialsConfig
         /\ credFile = configured
    /\ toolsConfig = DefaultToolsConfig
    /\ authModulesConfig \in {StoredModules(l) : l \in ModuleLists}
    /\ installed \in SUBSET AllExecutables
    /\ pc = "idle"
    /\ run = NoRun
    /\ lastSave = NoSave
    /\ adds = NoAdds
    /\ ncmd = 0

NextCheck ==
    \/ CheckCommand
    \/ Finish

SpecCheck == InitCheck /\ [][NextCheck]_vars

----------------------------------------------------------------------------
(* Exit codes *)

\* The exit code of the process: withErrorHandling in routeCommand exits
\* with 1 on an error thrown by the handler, handleCheckCommand exits with
\* 1 from its catch block, and a handler that returns (whatever it
\* returns) lets the process end normally.
ExitCode == IF run.result \in {"threw", "exit1"} THEN 1 ELSE 0

\* The finished run reported a validation error or, in non-interactive
\* mode, a missing prerequisite.
ReportedError ==
    \/ /\ run.cmd = "configure llm"
       /\ Truthy(run.brokerFlag)
       /\ ToLowerCase(run.brokerFlag) \notin Brokers
    \/ /\ run.cmd = "generate"
       /\ run.named = "module"
    \/ /\ run.cmd = "generate"
       /\ ~run.useInteractive
       /\ run.setup = "incomplete"
    \/ /\ run.cmd = "init"
       /\ ~run.useInteractive
       /\ run.result = "threw"

\* C23: every validation error and every missing-prerequisite error in
\* non-interactive mode makes the command end with a non-zero exit code.
C23_ErrorsExitNonZero == (pc = "done" /\ ReportedError) => ExitCode # 0

----------------------------------------------------------------------------
(* Declined confirmations *)

\* C24: when the user declines a confirm prompt (overwrite or save
\* confirmation in configure, module-addition confirmation in add, save
\* confirmation in init or in generate's credentials remediation), the
\* command ends as a success, not as a failure, and every persisted record
\* is the same as before the command started (every save stamps its record
\* with the current time, so this is: the command made no save call).
C24_DeclineIsSuccessfulNoOp ==
    (pc = "done" /\ run.declined) =>
        /\ run.result \in {"success", "returned"}
        /\ lastSave = NoSave

----------------------------------------------------------------------------
(* Dry run *)

\* C26: a command run with --dry-run (configure auth, configure llm, add,
\* generate) changes no persisted record, i.e. makes no save call, and
\* spawns no broker process.
C26_DryRunChangesNothing ==
    (run.cmd \in {"configure auth", "configure llm", "add", "generate"}
       /\ run.dryRun) =>
        /\ lastSave = NoSave
        /\ run.spawnCount = 0

----------------------------------------------------------------------------
(* Reads of damaged documents *)

\* A read whose body is wrapped in try/catch and returns null from catch.
TryCatch(threw, absent) == [raised |-> FALSE, absent |-> threw \/ absent]

\* A read with no try/catch: what is thrown reaches the caller.
NoCatch(threw, absent) == [raised |-> threw, absent |-> ~threw /\ absent]

\* What the read operation `op` does on a document in condition `cond`:
\* intact ("ok"); not JSON ("invalid": the Conf instances are created with
\* clearInvalidConfig, so get() then answers from an empty store); JSON
\* whose values are null ("nulls"); or unreadable, in which case Conf's
\* get() throws.
\* With null values, Object.keys(config.tools) and
\* config.selectedModules.length / modules.length throw a TypeError.
ReadResult(op, cond) ==
    LET cc == IF cond = "ok" THEN credentialsConfig
              ELSE EmptyCredentialsConfig
        tc == IF cond = "ok" THEN toolsConfig ELSE DefaultToolsConfig
        am == IF cond = "ok" THEN authModulesConfig
              ELSE DefaultAuthModulesConfig
        unreadable == cond = "unreadable"
        nulls == cond = "nulls"
    IN  CASE op = "loadCredentials" ->
               TryCatch(unreadable, nulls \/ loadCredentials(cc) = None)
          [] op = "hasCredentials" ->
               NoCatch(unreadable, nulls \/ ~hasCredentials(cc, credFile))
          [] op = "loadPreferredBroker" ->
               TryCatch(unreadable,
                        nulls \/ ~Truthy(loadPreferredBroker(tc)))
          [] op = "loadToolDetection" ->
               TryCatch(unreadable \/ nulls, loadToolDetection(tc) = None)
          [] op = "loadAuthModules" ->
               TryCatch(unreadable \/ nulls, loadAuthModules(am) = None)
          [] op = "hasAuthModules" ->
               NoCatch(unreadable \/ nulls, ~hasAuthModules(am))
          [] op = "getCallbackUri" ->
               NoCatch(unreadable, nulls \/ getCallbackUri(am) = None)

\* One read operation is called on a document in some condition.
ReadCall ==
    /\ pc = "idle"
    /\ ncmd < MaxCommands
    /\ \E op \in {"loadCredentials", "hasCredentials", "loadToolDetection",
                  "loadPreferredBroker", "loadAuthModules", "hasAuthModules",
                  "getCallbackUri"},
          cond \in {"ok", "invalid", "nulls", "unreadable"} :
         LET out == ReadResult(op, cond)
         IN  run' = [NoRun EXCEPT
                       !.cmd = "read",
                       !.read = [op |-> op, cond |-> cond,
                                 raised |-> out.raised,
                                 absent |-> out.absent]]
    /\ pc' = "done"
    /\ ncmd' = ncmd + 1
    /\ UNCHANGED <<stores, installed, lastSave, adds>>

NextRead ==
    \/ ReadCall
    \/ Finish

SpecRead == InitAdd /\ [][NextRead]_vars

\* C25: a read of a persisted record whose stored document is corrupt or
\* unreadable yields the absent value to the caller and never raises, for
\* every read operation of the store.
C25_DamagedReadYieldsAbsent ==
    (run.cmd = "read" /\ run.read.cond # "ok") =>
        /\ ~run.read.raised
        /\ run.read.absent

----------------------------------------------------------------------------
(* From the command line to the execution mode *)

\* cli.flags as meow builds it from the command line with MODE_FLAGS:
\* `interactive` is declared with default true, `noInteractive` with no
\* default.  --no-interactive either sets the declared noInteractive flag
\* or, read as the negation of --interactive, sets interactive to false
\* (`negates`); when both flags are given under negation the later one
\* decides (`noLast`: --no-interactive comes last).
meowFlags(givenInteractive, givenNoInteractive, negates, noLast) ==
    IF negates
    THEN [interactive |->
              ~(givenNoInteractive /\ (~givenInteractive \/ noLast)),
          noInteractive |-> FALSE]
    ELSE [interactive |-> TRUE, noInteractive |-> givenNoInteractive]

\* routeCommand up to the point where the handler has decided its mode:
\* validateCommand throws before any handler runs (withErrorHandling exits
\* with code 1); otherwise the handler calls shouldUseInteractive on the
\* flags it was given (`init auth` is handed interactive: true).
RouteCommand ==
    /\ pc = "idle"
    /\ ncmd < MaxCommands
    /\ \E givenInteractive \in BOOLEAN, givenNoInteractive \in BOOLEAN,
          negates \in BOOLEAN, noLast \in BOOLEAN, initAuth \in BOOLEAN :
         LET f == meowFlags(givenInteractive, givenNoInteractive,
                            negates, noLast)
             valid == validateCommand(f.interactive, f.noInteractive,
                                      FALSE, FALSE)
         IN  run' = [NoRun EXCEPT
                       !.cmd = "route",
                       !.argv = [interactive |-> givenInteractive,
                                 noInteractive |-> givenNoInteractive],
                       !.result = IF valid THEN "returned" ELSE "exit1",
                       !.useInteractive =
                           IF valid
                           THEN shouldUseInteractive(
                                    f.interactive \/ initAuth,
                                    f.noInteractive)
                           ELSE @]
    /\ pc' = "done"
    /\ ncmd' = ncmd + 1
    /\ UNCHANGED <<stores, installed, lastSave, adds>>

NextRoute ==
    \/ RouteCommand
    \/ Finish

SpecRoute == InitAdd /\ [][NextRoute]_vars

\* C27: a command runs in non-interactive mode exactly when
\* --no-interactive is given and --interactive is not; with neither flag
\* it runs interactive; with both flags it is rejected as an invalid flag
\* combination before any handler runs and before anything is persisted.
C27_ModeFollowsFlags ==
    run.cmd = "route" =>
        IF run.argv.interactive /\ run.argv.noInteractive
        THEN run.result = "exit1" /\ lastSave = NoSave
        ELSE /\ run.result = "returned"
             /\ ~run.useInteractive =
                    (run.argv.noInteractive /\ ~run.argv.interactive)

\* C28: from no stored credentials in interactive mode, when the user
\* supplies four non-empty values and confirms saving, the credentials
\* remediation of the orchestrator persists them and goes on to the
\* callback URI state instead of reporting the setup as incomplete.
C28_RemediationCanPersist ==
    (pc = "promptMissingCredentials" /\ run.useInteractive) =>
        ENABLED (/\ promptMissingCredentials
                 /\ pc' = "checkCallbackUri"
                 /\ lastSave'.credentials # None
                 /\ hasCredentials(credentialsConfig', credFile'))

----------------------------------------------------------------------------
(* The callback URI remediation promptMissingCallbackUri *)

\* promptIfInteractive(interactive, question, defaultValue, options) with a
\* validator function passed as `options`: `...options` copies nothing from
\* a function, so no `validate` reaches the prompt and whatever was typed is
\* returned.
promptIfInteractiveWithValidator(interactive, defaultValue, typed) ==
    IF ~interactive THEN defaultValue ELSE typed

\* The object promptMissingCallbackUri hands to saveAuthModules as
\* additionalConfig: the loaded record (or its stand-in) with callbackUri
\* replaced.
UpdatedModulesConfig(ac, callbackUri) ==
    LET loaded == loadAuthModules(ac)
        existing == IF loaded # None THEN loaded[1]
                    ELSE [selectedModules |-> <<>>, selectedAt |-> NOW,
                          version |-> "1.0"]
    IN  [NoAdditionalConfig EXCEPT
           !.selectedModules = Some(existing.selectedModules),
           !.selectedAt = Some(existing.selectedAt),
           !.version = Some(existing.version),
           !.callbackUri = Some(Trim(callbackUri))]

\* Step 2 of the orchestrator where it remediates a missing callback URI
\* with promptMissingCallbackUri(handler).
promptMissingCallbackUri ==
    /\ pc = "idle"
    /\ ncmd < MaxCommands
    /\ ~CallbackUriTruthy(authModulesConfig)
    /\ \E useInteractive \in BOOLEAN, typed \in UriInputs :
         LET r == [NoRun EXCEPT !.cmd = "generate",
                                !.useInteractive = useInteractive,
                                !.remStarted = {"callback"}]
             callbackUri ==
                 promptIfInteractiveWithValidator(useInteractive, <<>>, typed)
             updated == UpdatedModulesConfig(authModulesConfig, callbackUri)
         IN  IF ~useInteractive
             THEN /\ run' = SetupIncomplete(r, "callback")
                  /\ UNCHANGED <<authModulesConfig, lastSave>>
             ELSE IF callbackUri = <<>>
             THEN /\ run' = [SetupIncomplete(r, "callback")
                               EXCEPT !.prompted = TRUE]
                  /\ UNCHANGED <<authModulesConfig, lastSave>>
             ELSE /\ authModulesConfig' =
                        saveAuthModules(authModulesConfig, <<>>, updated)
                  /\ lastSave' = [lastSave EXCEPT
                                    !.modules = Some(<<>>),
                                    !.additional = Some(updated)]
                  /\ run' = [r EXCEPT !.prompted = TRUE,
                                      !.result = "returned"]
    /\ pc' = "done"
    /\ ncmd' = ncmd + 1
    /\ UNCHANGED <<credentialsConfig, credFile, toolsConfig, installed, adds>>

NextCallback ==
    \/ promptMissingCallbackUri
    \/ Finish

SpecCallback == InitAdd /\ [][NextCallback]_vars

\* C29: in every reachable state the persisted callbackUri is absent or a
\* trimmed string that starts with http:// or https:// followed by at
\* least one character; no writing path stores an empty or non-matching
\* input.
C29_CallbackUriWellFormed ==
    LET stored == getCallbackUri(authModulesConfig)
    IN  stored # None =>
            /\ Len(stored[1]) >= 2
            /\ stored[1][1] = "scheme"
            /\ stored[1][Len(stored[1])] # "sp"

\* C30: setting the callback URI through the redirect-configuration flow
\* leaves selectedModules unchanged, and adding modules without configuring
\* a redirect leaves the existing callbackUri unchanged.  The first is a
\* step of `configure auth --redirects` or of the orchestrator's callback
\* URI step that saved; the second is a save step of `add` that does not
\* mark redirects as configured (no redirect was asked for, or the redirect
\* setup returned no callback URI).
C30_FieldsAreIndependent ==
    [][/\ ( /\ \/ pc = "idle" /\ run'.cmd = "configure redirects"
              \/ pc = "handleConfigureRedirects"
           /\ lastSave'.additional # lastSave.additional )
          => authModulesConfig'.selectedModules =
                 authModulesConfig.selectedModules
       /\ ( /\ pc = "saveModules"
           /\ lastSave'.modules # None
           /\ lastSave'.additional[1].redirectsConfigured = None )
          => authModulesConfig'.callbackUri =
                 authModulesConfig.callbackUri]_vars

\* An add that configured no redirect has saved more modules into a record
\* that holds a callback URI.
C30_Witness ==
    /\ pc = "done"
    /\ run.cmd = "add"
    /\ lastSave.modules # None
    /\ lastSave.additional[1].redirectsConfigured = None
    /\ getCallbackUri(authModulesConfig) # None
    /\ Len(getAuthModules(authModulesConfig)) > 1

====
